---- MODULE Spec2Model ----
(***************************************************************************)
(* Model of server.js of nifty100-live-app: the OAuth callback, the        *)
(* instrument resolver (hydrateInstrumentMap), the ticker lifecycle        *)
(* (startTicker and the KiteTicker event handlers), the price cache        *)
(* (ltpMap) and the quotes endpoint.                                       *)
(*                                                                         *)
(* Node runs one event loop.  A handler runs without interruption up to    *)
(* its next await on an SDK promise (kite.generateSession,                 *)
(* kite.getInstruments); these two awaits are the points where other       *)
(* requests and events interleave.  When kite.getInstruments settles, the  *)
(* rest of hydrateInstrumentMap, the rest of startTicker and the caller's  *)
(* continuation are consecutive promise reactions of the same event-loop   *)
(* turn, so they form one action.                                          *)
(*                                                                         *)
(* The kiteconnect SDK is outside the repository.  A KiteTicker is         *)
(* modelled as server.js uses it: connect() opens the connection handle    *)
(* the code reads as ticker._ws, disconnect() asks for it to be closed     *)
(* and may throw, and the object later emits connect, ticks and close.     *)
(***************************************************************************)
EXTENDS Integers, Sequences, FiniteSets, TLC

VARIABLES
    KITE_ACCESS_TOKEN,   \* the credential; "" when none
    instrumentBySymbol,  \* JS Map tradingsymbol -> instrument_token, as the
                         \* sequence of its entries in insertion order
    ltpMap,              \* JS Map tradingsymbol -> {price}, as a function
    ticker,              \* index into sessions of the current KiteTicker, 0 = null
    sessions,            \* every KiteTicker object constructed so far
    procs,               \* position of the listen callback (0) and of each
                         \* callback request slot
    last,                \* history: what the handler that ran in the last
                         \* step was given and what it answered
    written              \* history: per symbol, the last two prices handed
                         \* to ltpMap.set

vars == <<KITE_ACCESS_TOKEN, instrumentBySymbol, ltpMap, ticker, sessions, procs,
          last, written>>

\* What the spec calls the controller state.
controller == <<KITE_ACCESS_TOKEN, instrumentBySymbol, ltpMap, ticker, sessions>>

(* ------------------------------ bounds --------------------------------- *)

MaxSessions == 3   \* KiteTicker objects constructed in one run
MaxClients == 1    \* callback requests in flight at once
MaxTicks == 1      \* ticks carried by one ticks event

(* ----------------------------- constants ------------------------------- *)

chunkSize == 20

\* Symbol names that fill the universe up to three subscription batches.
Sym(i) == "S" \o ToString(i)

WideLen == 3 * chunkSize

\* The universe, after split(',').map(trim).filter(Boolean); the list may
\* repeat a symbol, as the example configuration does, and is as long as
\* three subscription batches.
NIFTY100 == <<"A", "B", "A">> \o [ i \in 1..WideLen |-> Sym(i) ]

Rec(sym, tok) == [tradingsymbol |-> sym, instrument_token |-> tok]

\* Catalog snapshots kite.getInstruments('NSE') may return.
CatFull  == << Rec("A", 1), Rec("B", 2) >>
\* A later load: A is delisted, B is listed twice and identifier 1 now
\* belongs to B; Z is outside the universe.
CatMoved == << Rec("B", 2), Rec("Z", 3), Rec("B", 1) >>
\* No universe symbol at all.
CatNone  == << Rec("Z", 3) >>

Catalogs == {CatFull, CatMoved, CatNone}

\* Catalog snapshots that list the first n of the Sym symbols.
CatWide(n) == [ i \in 1..n |-> Rec(Sym(i), 100 + i) ]

\* Every catalog length from one identifier to three full batches.
WideCatalogs == { CatWide(n) : n \in 1..WideLen }

Credentials == {"t2"}          \* access token the exchange issues (differs from the seed)
SeedTokens  == {"", "t1"}            \* process.env.KITE_ACCESS_TOKEN || ''
RequestTokens == {"", "rt"}          \* req.query.request_token; "" = absent

Clients == 1..MaxClients
Procs   == {0} \cup Clients

\* Payload shapes of a tick: which of last_price, ltp, close carry a value.
TickShapes ==
    { [last_price |-> 100, ltp |-> 0,   close |-> 105],
      [last_price |-> 105, ltp |-> 0,   close |-> 0],
      [last_price |-> 0,   ltp |-> 100, close |-> 105],
      [last_price |-> 0,   ltp |-> 0,   close |-> 0] }

\* Raw ?tickers= strings, as sequences of lexical atoms: a symbol name, a
\* comma or a blank.
QueryStrings ==
    { << >>,
      << "A" >>,
      << "Z" >>,
      << " ", "A", ",", "B", " " >>,
      << "A", ",", ",", "A" >>,
      << ",", " " >>,
      << "A", " ", "B" >> }

(* ------------------------------ helpers -------------------------------- *)

Range(s) == { s[i] : i \in 1..Len(s) }

RECURSIVE SeqsUpTo(_, _)
SeqsUpTo(S, n) ==
    IF n = 0 THEN { << >> }
    ELSE LET shorter == SeqsUpTo(S, n - 1)
         IN  shorter \cup { Append(q, x) : q \in { r \in shorter : Len(r) = n - 1 }, x \in S }

\* A membership test that accepts every symbol.
IncludesAnything(arr, x) == TRUE

\* Array.prototype.includes
Includes(arr, x) == \E i \in 1..Len(arr) : arr[i] = x

\* Array.from(map.values())
MapValues(m) == [ i \in 1..Len(m) |-> m[i][2] ]

(* ----------------------- hydrateInstrumentMap --------------------------- *)

\* The Map the for loop of hydrateInstrumentMap leaves when it starts from
\* m: Map.prototype.set keeps the position of a key that exists and appends
\* a new one, so the keys of m stay in place, the new keys follow in the
\* order of their first set, and every key set in the loop holds the token
\* of its last set.
HydrateLoop(m, all) ==
    LET sym(i) == all[i].tradingsymbol
        isSet(k) == /\ Includes(NIFTY100, k)
                    /\ \E i \in 1..Len(all) : sym(i) = k
        lastSet(k) == CHOOSE i \in 1..Len(all) :
                         sym(i) = k /\ \A j \in (i + 1)..Len(all) : sym(j) # k
        entry(k) == << k, all[lastSet(k)].instrument_token >>
        isNew(i) == /\ Includes(NIFTY100, sym(i))
                    /\ \A k \in 1..Len(m) : m[k][1] # sym(i)
                    /\ \A j \in 1..(i - 1) : sym(j) # sym(i)
        firsts == SelectSeq([ i \in 1..Len(all) |-> i ], isNew)
    IN  [ k \in 1..Len(m) |-> IF isSet(m[k][1]) THEN entry(m[k][1]) ELSE m[k] ]
          \o [ n \in 1..Len(firsts) |-> entry(sym(firsts[n])) ]

\* A resolver that forgets to start from a new Map.
HydrateKeepingOld(prior, all) == HydrateLoop(prior, all)

\* instrumentBySymbol after a successful fetch of `all`; `prior` is the
\* index before the call, which `instrumentBySymbol = new Map()` discards.
Hydrate(prior, all) == HydrateLoop(<< >>, all)

(* --------------------------- ticker handlers --------------------------- *)

Min(a, b) == IF a < b THEN a ELSE b

\* A connect handler that subscribes everything in one call.
ChunksOneBatch(tokens, i, n) == IF tokens = << >> THEN << >> ELSE << tokens >>

\* tokens.slice(i, i + chunkSize) for i = 0, chunkSize, ... (1-based here)
RECURSIVE ChunksFrom(_, _, _)
ChunksFrom(tokens, i, n) ==
    IF i > Len(tokens) THEN << >>
    ELSE << SubSeq(tokens, i, Min(i + n - 1, Len(tokens))) >>
         \o ChunksFrom(tokens, i + n, n)

\* The calls the connect handler issues: subscribe then setMode per chunk.
RECURSIVE ConnectCalls(_)
ConnectCalls(chunks) ==
    IF chunks = << >> THEN << >>
    ELSE << [op |-> "subscribe", mode |-> "", chunk |-> Head(chunks)],
            [op |-> "setMode", mode |-> "ltp", chunk |-> Head(chunks)] >>
         \o ConnectCalls(Tail(chunks))

\* [...instrumentBySymbol.entries()].find(([, tok]) => tok === id)?.[0];
\* "" stands for undefined.
SymbolOf(idx, id) ==
    LET hits == { i \in 1..Len(idx) : idx[i][2] = id }
    IN  IF hits = {} THEN ""
        ELSE idx[CHOOSE i \in hits : \A j \in hits : i <= j][1]

\* t.last_price || t.ltp || t.close || 0
TickPrice(t) ==
    IF t.last_price # 0 THEN t.last_price
    ELSE IF t.ltp # 0 THEN t.ltp
    ELSE IF t.close # 0 THEN t.close
    ELSE 0

\* A cache that holds the most recent symbol alone.
LtpSetAlone(cache, sym, price) == [ k \in {sym} |-> [price |-> price] ]

\* A cache that keeps the first price it saw for a symbol.
LtpSetIfAbsent(cache, sym, price) ==
    IF sym \in DOMAIN cache THEN cache
    ELSE [ k \in DOMAIN cache \cup {sym} |->
             IF k = sym THEN [price |-> price] ELSE cache[k] ]

\* ltpMap.set(sym, { price, ts })
LtpSet(cache, sym, price) ==
    [ k \in DOMAIN cache \cup {sym} |->
        IF k = sym THEN [price |-> price] ELSE cache[k] ]

\* The ticks handler's loop.  st carries the cache and the log of the
\* prices handed to ltpMap.set, per symbol (prev, last; 0 = none).
RECURSIVE OnTicks(_, _, _)
OnTicks(st, idx, ticks) ==
    IF ticks = << >> THEN st
    ELSE LET t     == Head(ticks)
             sym   == SymbolOf(idx, t.instrument_token)
             price == TickPrice(t)
         IN  IF sym = "" \/ price = 0
             THEN OnTicks(st, idx, Tail(ticks))
             ELSE OnTicks(
                    [cache |-> LtpSet(st.cache, sym, price),
                     log   |-> [ k \in DOMAIN st.log \cup {sym} |->
                                   IF k = sym
                                   THEN [prev |-> IF sym \in DOMAIN st.log
                                                  THEN st.log[sym].last ELSE 0,
                                         last |-> price]
                                   ELSE st.log[k] ]],
                    idx, Tail(ticks))

(* ------------------------------ /api/quotes ---------------------------- *)

\* String.prototype.split(',')
RECURSIVE SplitAcc(_, _, _)
SplitAcc(raw, cur, acc) ==
    IF raw = << >> THEN Append(acc, cur)
    ELSE IF Head(raw) = "," THEN SplitAcc(Tail(raw), << >>, Append(acc, cur))
    ELSE SplitAcc(Tail(raw), Append(cur, Head(raw)), acc)

Split(raw) == SplitAcc(raw, << >>, << >>)

\* String.prototype.trim
RECURSIVE TrimLeft(_)
TrimLeft(s) == IF s # << >> /\ Head(s) = " " THEN TrimLeft(Tail(s)) ELSE s

RECURSIVE TrimRight(_)
TrimRight(s) ==
    IF s # << >> /\ s[Len(s)] = " " THEN TrimRight(SubSeq(s, 1, Len(s) - 1)) ELSE s

Trim(s) == TrimRight(TrimLeft(s))

\* .map(s => s.trim()).filter(Boolean)
RECURSIVE TrimAndFilter(_)
TrimAndFilter(parts) ==
    IF parts = << >> THEN << >>
    ELSE LET t == Trim(Head(parts))
         IN  (IF t = << >> THEN << >> ELSE << t >>) \o TrimAndFilter(Tail(parts))

ParseTickers(raw) == TrimAndFilter(Split(raw))

\* ltpMap.get(t) is defined: t spells exactly one symbol name, and it is cached.
Cached(cache, t) == Len(t) = 1 /\ t[1] \in DOMAIN cache

\* A handler that null-fills the symbols it has no price for.
QuotesOutNullFilled(tickers, cache) ==
    [ t \in Range(tickers) |-> IF Cached(cache, t) THEN cache[t[1]].price ELSE 0 ]

\* The object out built by the loop of the quotes handler.
QuotesOut(tickers, cache) ==
    [ t \in { x \in Range(tickers) : Cached(cache, x) } |-> cache[t[1]].price ]

(* ------------------------------ sessions ------------------------------- *)

\* A Streaming Session: connect() was called on the KiteTicker and
\* disconnect() was not.
Live(k) == k.ws /\ k.disc = "no"

LiveSet(ss) == { i \in 1..Len(ss) : Live(ss[i]) }

\* A replacement that never closes the previous ticker.
NeverDisconnect(tk, ss) == FALSE

\* if (ticker && ticker._ws)
ShouldDisconnect(tk, ss) == tk # 0 /\ ss[tk].ws

\* A disconnect() that requests nothing.
DisconnectIgnored(k, threw) == k

\* ticker.disconnect() inside try {} catch {}: the close is requested; when
\* the call throws the connection is left as it was.
Disconnect(k, threw) ==
    IF threw THEN [k EXCEPT !.disc = "threw"]
    ELSE [k EXCEPT !.disc = "ok",
                   !.st = IF k.st \in {"connecting", "open"} THEN "closing" ELSE k.st]

\* A disconnect statement without its try/catch.
EscapesUncaught(threw) == threw

\* try { ticker.disconnect(); } catch {}: whether an exception thrown by
\* disconnect() leaves the statement.
Escapes(threw) == FALSE

\* A guard on the token list that never fires.
NeverEmpty(tokens) == FALSE

\* if (!tokens.length)
NoTokens(tokens) == Len(tokens) = 0

\* new KiteTicker({ api_key, access_token }), the handlers registered on it
\* (which close over tokens) and ticker.connect().  index and cat are
\* history: the index the tokens came from and the catalog the invocation
\* fetched (<< >> when its fetch failed).
Connected(idx, cat) ==
    [ access_token |-> KITE_ACCESS_TOKEN,
      ws           |-> TRUE,
      st           |-> "connecting",
      disc         |-> "no",
      calls        |-> << >>,
      tokens       |-> MapValues(idx),
      index        |-> idx,
      cat          |-> cat ]

(* ------------------------------ processes ------------------------------ *)

Nothing == [op |-> "none"]

Init ==
    /\ KITE_ACCESS_TOKEN \in SeedTokens
    /\ instrumentBySymbol = << >>
    /\ ltpMap = << >>
    /\ ticker = 0
    /\ sessions = << >>
    /\ procs = [ p \in Procs |-> IF p = 0 THEN "init" ELSE "idle" ]
    /\ last = Nothing
    /\ written = << >>

\* A server that never looks at the credential before starting the ticker.
CredentialNotChecked(tok) == FALSE

\* if (!KITE_ACCESS_TOKEN) of startTicker, if (KITE_ACCESS_TOKEN) of the
\* listen callback: the empty string is falsy.
NoCredential(tok) == tok = ""

\* app.listen's callback: startTicker is entered when a token was seeded and
\* runs up to `await kite.getInstruments('NSE')`.
Listen ==
    /\ procs[0] = "init"
    /\ procs' = [procs EXCEPT ![0] = IF NoCredential(KITE_ACCESS_TOKEN) THEN "done" ELSE "fetch"]
    /\ last' = [op |-> "listen"]
    /\ UNCHANGED <<controller, written>>

Listening == procs[0] # "init"

\* A check of request_token that lets the empty value through.
NeverMissing(rt) == FALSE

\* if (!request_token)
MissingToken(rt) == rt = ""

\* GET /auth/zerodha/callback up to `await kite.generateSession(...)`.
CallbackRequest(p, rt) ==
    /\ Listening
    /\ procs[p] = "idle"
    /\ IF MissingToken(rt)
       THEN /\ procs' = procs
            /\ last' = [op |-> "callback", p |-> p, request_token |-> rt,
                        exchange |-> "none", status |-> 400]
       ELSE /\ procs' = [procs EXCEPT ![p] = "exchange"]
            /\ last' = [op |-> "callback", p |-> p, request_token |-> rt,
                        exchange |-> "pending", status |-> 0]
    /\ UNCHANGED <<controller, written>>

\* generateSession resolved: the token is stored and startTicker entered;
\* with a token it runs up to `await kite.getInstruments('NSE')`.
GenerateSessionOk(p, token) ==
    /\ procs[p] = "exchange"
    /\ KITE_ACCESS_TOKEN' = token
    /\ IF NoCredential(token)
       THEN /\ procs' = [procs EXCEPT ![p] = "idle"]
            /\ last' = [op |-> "callback", p |-> p, request_token |-> "rt",
                        exchange |-> "ok", status |-> 200]
       ELSE /\ procs' = [procs EXCEPT ![p] = "fetch"]
            /\ last' = [op |-> "callback", p |-> p, request_token |-> "rt",
                        exchange |-> "ok", status |-> 0]
    /\ UNCHANGED <<instrumentBySymbol, ltpMap, ticker, sessions, written>>

\* A catch block that stores a token and reports success.
CatchStoresToken(p) ==
    /\ KITE_ACCESS_TOKEN' = "t2"
    /\ last' = [op |-> "callback", p |-> p, request_token |-> "rt",
                exchange |-> "fail", status |-> 200]
    /\ UNCHANGED <<instrumentBySymbol, ltpMap, ticker, sessions>>

\* catch (err) { res.status(500).send(...) }
Catch(p) ==
    /\ last' = [op |-> "callback", p |-> p, request_token |-> "rt",
                exchange |-> "fail", status |-> 500]
    /\ UNCHANGED controller

\* generateSession rejected.
GenerateSessionFail(p) ==
    /\ procs[p] = "exchange"
    /\ Catch(p)
    /\ procs' = [procs EXCEPT ![p] = "idle"]
    /\ UNCHANGED written

\* startTicker from `const tokens = ...` to its end, then the caller's
\* continuation: the callback sends its confirmation, the listen callback
\* ends.  idx is instrumentBySymbol as hydrateInstrumentMap left it.  last
\* records the invocation: the catalog fetched (<< >> when the fetch
\* failed), the session it made (0 = none) and the sessions live at the
\* moment connect() was called.  An exception leaving the disconnect
\* statement would end startTicker there and reach the callback's catch.
Resume(p, idx, cat, resolved, threw) ==
    LET tokens == MapValues(idx)
        closed == IF ShouldDisconnect(ticker, sessions)
                  THEN [sessions EXCEPT ![ticker] = Disconnect(@, threw)]
                  ELSE sessions
        escaped == /\ ~NoTokens(tokens)
                   /\ ShouldDisconnect(ticker, sessions)
                   /\ Escapes(threw)
        made   == IF NoTokens(tokens) \/ escaped THEN 0 ELSE Len(sessions) + 1
    IN  /\ instrumentBySymbol' = idx
        /\ IF NoTokens(tokens)
           THEN UNCHANGED <<ticker, sessions>>
           ELSE IF escaped
           THEN /\ sessions' = closed
                /\ ticker' = ticker
           ELSE /\ Len(sessions) < MaxSessions
                /\ sessions' = Append(closed, Connected(idx, cat))
                /\ ticker' = Len(sessions) + 1
        /\ procs' = [procs EXCEPT ![p] = IF p = 0 THEN "done" ELSE "idle"]
        /\ last' = [op |-> "startTicker", p |-> p, resolved |-> resolved,
                    cat |-> cat, made |-> made,
                    liveAtConnect |-> IF made = 0 THEN {} ELSE LiveSet(closed),
                    status |-> IF p = 0 THEN 0 ELSE IF escaped THEN 500 ELSE 200]
        /\ UNCHANGED <<KITE_ACCESS_TOKEN, ltpMap, written>>

\* kite.getInstruments resolved with the catalog `all`.
GetInstrumentsOk(p, all) ==
    /\ procs[p] = "fetch"
    /\ \E threw \in BOOLEAN :
          Resume(p, Hydrate(instrumentBySymbol, all), all, TRUE, threw)

\* kite.getInstruments rejected: the catch of hydrateInstrumentMap logs and
\* the index keeps its contents.
GetInstrumentsFail(p) ==
    /\ procs[p] = "fetch"
    /\ \E threw \in BOOLEAN :
          Resume(p, instrumentBySymbol, << >>, FALSE, threw)

\* The connect handler of session s: subscribe and setMode go to whatever
\* the module variable `ticker` holds now.
OnConnect(s) ==
    /\ sessions[s].st = "connecting"
    /\ sessions' =
          LET opened == [sessions EXCEPT ![s].st = "open"]
          IN  [opened EXCEPT ![ticker].calls =
                  @ \o ConnectCalls(ChunksFrom(sessions[s].tokens, 1, chunkSize))]
    /\ last' = [op |-> "connect", s |-> s, target |-> ticker,
                calls |-> ConnectCalls(ChunksFrom(sessions[s].tokens, 1, chunkSize))]
    /\ UNCHANGED <<KITE_ACCESS_TOKEN, instrumentBySymbol, ltpMap, ticker, procs, written>>

\* Identifiers subscribed on a session.
Subscribed(k) ==
    UNION { Range(k.calls[i].chunk) : i \in { j \in 1..Len(k.calls) : k.calls[j].op = "subscribe" } }

TickBatches(k) ==
    SeqsUpTo({ [instrument_token |-> id, last_price |-> sh.last_price,
                ltp |-> sh.ltp, close |-> sh.close] :
                  id \in Subscribed(k), sh \in TickShapes }, MaxTicks) \ { << >> }

\* The ticks handler of session s.  A connection whose close was requested
\* can still deliver the ticks already on their way.
OnTickEvent(s, ticks) ==
    /\ sessions[s].st \in {"open", "closing"}
    /\ LET after == OnTicks([cache |-> ltpMap, log |-> written],
                            instrumentBySymbol, ticks)
       IN  /\ ltpMap' = after.cache
           /\ written' = after.log
    /\ last' = [op |-> "ticks", s |-> s, ticks |-> ticks]
    /\ UNCHANGED <<KITE_ACCESS_TOKEN, instrumentBySymbol, ticker, sessions, procs>>

\* GET /api/quotes?tickers=raw
Quotes(raw) ==
    /\ Listening
    /\ LET tickers == ParseTickers(raw)
       IN  last' = [op |-> "quotes", tickers |-> tickers,
                    out |-> QuotesOut(tickers, ltpMap)]
    /\ UNCHANGED <<controller, procs, written>>

Next ==
    \/ Listen
    \/ \E p \in Clients, rt \in RequestTokens : CallbackRequest(p, rt)
    \/ \E p \in Clients, token \in Credentials : GenerateSessionOk(p, token)
    \/ \E p \in Clients : GenerateSessionFail(p)
    \/ \E p \in Procs, all \in Catalogs : GetInstrumentsOk(p, all)
    \/ \E p \in Procs : GetInstrumentsFail(p)
    \/ \E s \in 1..Len(sessions) : OnConnect(s)
    \/ \E s \in 1..Len(sessions) : \E ticks \in TickBatches(sessions[s]) : OnTickEvent(s, ticks)
    \/ \E raw \in QueryStrings : Quotes(raw)

Spec == Init /\ [][Next]_vars

(* -------------------------- sub-specifications ------------------------- *)

\* The credential and session lifecycle.  The handlers left out write only
\* ltpMap, written, last (OnTickEvent, Quotes) and the st and calls of a
\* session (OnConnect); no action below reads these except Disconnect, which
\* reads st to set st.  So KITE_ACCESS_TOKEN, instrumentBySymbol, ticker,
\* procs and the other fields of sessions take here the values they take
\* under Spec.
NextLifecycle ==
    \/ Listen
    \/ \E p \in Clients, rt \in RequestTokens : CallbackRequest(p, rt)
    \/ \E p \in Clients, token \in Credentials : GenerateSessionOk(p, token)
    \/ \E p \in Clients : GenerateSessionFail(p)
    \/ \E p \in Procs, all \in Catalogs : GetInstrumentsOk(p, all)
    \/ \E p \in Procs : GetInstrumentsFail(p)

SpecLifecycle == Init /\ [][NextLifecycle]_vars

\* From credential to session: the callbacks that carry a request_token,
\* their exchange, and resolutions that find the whole universe, nothing of
\* it, or fail; with the scheduling Node gives: the listen callback runs,
\* and a pending SDK promise settles and its continuation is run.
NextStart ==
    \/ Listen
    \/ \E p \in Clients : CallbackRequest(p, "rt")
    \/ \E p \in Clients, token \in Credentials : GenerateSessionOk(p, token)
    \/ \E p \in Procs, all \in {CatFull, CatNone} : GetInstrumentsOk(p, all)
    \/ \E p \in Procs : GetInstrumentsFail(p)

SpecStartFair ==
    /\ Init
    /\ [][NextStart]_vars
    /\ WF_vars(Listen)
    /\ \A p \in Clients :
          WF_vars(\E token \in Credentials : GenerateSessionOk(p, token))
    /\ \A p \in Procs :
          WF_vars((\E all \in {CatFull, CatNone} : GetInstrumentsOk(p, all))
                    \/ GetInstrumentsFail(p))

\* The price cache and the quotes endpoint of a server that receives no
\* callback: every cache content over the universe is reached.
NextCache ==
    \/ Listen
    \/ \E all \in Catalogs : GetInstrumentsOk(0, all)
    \/ GetInstrumentsFail(0)
    \/ \E s \in 1..Len(sessions) : OnConnect(s)
    \/ \E s \in 1..Len(sessions) : \E ticks \in TickBatches(sessions[s]) : OnTickEvent(s, ticks)
    \/ \E raw \in QueryStrings : Quotes(raw)

SpecCache == Init /\ [][NextCache]_vars

\* Subscription on connect of a server started with a seeded credential that
\* receives no callback, for every catalog length up to three batches.
NextSubscribe ==
    \/ Listen
    \/ \E all \in WideCatalogs : GetInstrumentsOk(0, all)
    \/ GetInstrumentsFail(0)
    \/ \E s \in 1..Len(sessions) : OnConnect(s)

SpecSubscribe == Init /\ [][NextSubscribe]_vars

\* Ticks as the last-traded-price mode delivers them: last_price alone.
LtpTicks(k) ==
    { b \in TickBatches(k) : \A i \in 1..Len(b) : b[i].ltp = 0 /\ b[i].close = 0 }

\* Streaming across credential rotations: callbacks that carry a
\* request_token and whose exchange succeeds, every resolution outcome, and
\* the connect and ticks events of every session.
NextStream ==
    \/ Listen
    \/ \E p \in Clients : CallbackRequest(p, "rt")
    \/ \E p \in Clients, token \in Credentials : GenerateSessionOk(p, token)
    \/ \E p \in Procs, all \in Catalogs : GetInstrumentsOk(p, all)
    \/ \E p \in Procs : GetInstrumentsFail(p)
    \/ \E s \in 1..Len(sessions) : OnConnect(s)
    \/ \E s \in 1..Len(sessions) : \E ticks \in LtpTicks(sessions[s]) : OnTickEvent(s, ticks)

SpecStream == Init /\ [][NextStream]_vars

(* ------------------------------- claims -------------------------------- *)

LiveSessionUsesCurrentCredential ==
    (\A p \in Procs : procs[p] # "fetch")
        => \A i \in LiveSet(sessions) : sessions[i].access_token = KITE_ACCESS_TOKEN

\* C4: the key set of a quotes response is a subset of the requested
\* symbols and of the symbols written to the cache so far, and an empty
\* request list gets the empty mapping.
QuotesKeysRequestedAndWritten ==
    last.op = "quotes"
        => /\ DOMAIN last.out \subseteq Range(last.tickers)
           /\ \A t \in DOMAIN last.out : Len(t) = 1 /\ t[1] \in DOMAIN written
           /\ (last.tickers = << >> => DOMAIN last.out = {})

\* A and B are requested, only A was ever written: B is absent.
QuotesOmitsUnwritten ==
    /\ last.op = "quotes"
    /\ last.tickers = << << "A" >>, << "B" >> >>
    /\ DOMAIN written = {"A"}
    /\ DOMAIN last.out = { << "A" >> }

\* C5: for every requested symbol that was written, the quotes response
\* carries the price of the most recent write.
QuotesReturnsLastWrite ==
    last.op = "quotes"
        => \A t \in Range(last.tickers) :
              (Len(t) = 1 /\ t[1] \in DOMAIN written)
                  => (t \in DOMAIN last.out /\ last.out[t] = written[t[1]].last)

\* A was written 100, then 105, and the response says 105.
QuotesAfterOverwrite ==
    /\ last.op = "quotes"
    /\ "A" \in DOMAIN written
    /\ written["A"].prev = 100
    /\ written["A"].last = 105
    /\ << "A" >> \in DOMAIN last.out
    /\ last.out[<< "A" >>] = 105

\* C6: a callback request without request_token is answered 400 and
\* changes neither the controller state nor the position of any process
\* (no exchange, resolution or session start is begun).
MissingTokenIs400AndNoChange ==
    [][ (last'.op = "callback" /\ last'.request_token = "")
          => (last'.status = 400 /\ UNCHANGED <<controller, procs>>) ]_vars

\* The 400 is given while a session is streaming under a credential.
MissingTokenWhileStreaming ==
    /\ last.op = "callback"
    /\ last.request_token = ""
    /\ last.status = 400
    /\ LiveSet(sessions) # {}
    /\ KITE_ACCESS_TOKEN # ""

NoSessionWithoutIdentifiers ==
    [][ (last'.op = "startTicker" /\ last'.resolved /\ instrumentBySymbol' = << >>)
          => /\ last'.made = 0
             /\ sessions' = sessions
             /\ ticker' = ticker
             /\ procs'[last'.p] # "fetch" ]_vars

\* A callback's startTicker resolved a catalog without universe symbols.
EmptyResolutionWitness ==
    /\ last.op = "startTicker"
    /\ last.p = 1
    /\ last.resolved
    /\ last.cat = CatNone
    /\ instrumentBySymbol = << >>
    /\ last.made = 0
    /\ last.status = 200

\* C9: a startTicker whose catalog fetch failed makes no session.
NoSessionAfterFetchFailure ==
    (last.op = "startTicker" /\ ~last.resolved) => last.made = 0

\* C10: two sessions whose invocations resolved the same catalog snapshot
\* were given the same index, whatever the index held before each run.
ResolutionIdempotent ==
    \A i, j \in 1..Len(sessions) :
        (sessions[i].cat # << >> /\ sessions[i].cat = sessions[j].cat)
            => sessions[i].index = sessions[j].index

\* The catalog listing B twice is resolved on an empty index and again after
\* the full catalog had been resolved.
SameCatalogDifferentPriors ==
    /\ Len(sessions) = 3
    /\ sessions[1].cat = CatMoved
    /\ sessions[2].cat = CatFull
    /\ sessions[3].cat = CatMoved
    /\ sessions[1].index = sessions[3].index

\* C11: after a successful resolution the keys of the instrument index are
\* exactly the symbols that are in the universe and in the fetched catalog,
\* and the invocation ends normally (a callback answers 200) even when
\* universe symbols are missing from the catalog.
IndexIsUniverseInCatalog ==
    [][ (last'.op = "startTicker" /\ last'.resolved)
          => /\ { instrumentBySymbol'[i][1] : i \in 1..Len(instrumentBySymbol') }
                   = Range(NIFTY100)
                       \cap { last'.cat[i].tradingsymbol : i \in 1..Len(last'.cat) }
             /\ last'.p # 0 => last'.status = 200 ]_vars

\* The catalog without A and with Z is resolved: only B is kept.
DroppedAndForeignSymbols ==
    /\ last.op = "startTicker"
    /\ last.resolved
    /\ last.cat = CatMoved
    /\ { instrumentBySymbol[i][1] : i \in 1..Len(instrumentBySymbol) } = {"B"}
    /\ last.made # 0

\* C12: when a callback's startTicker begins its resolution (its catalog
\* fetch is issued), the previous session has already been asked to
\* disconnect: no session is live once the fetch is pending.
DisconnectPrecedesResolution ==
    [][ \A p \in Clients :
           (procs[p] # "fetch" /\ procs'[p] = "fetch") => LiveSet(sessions') = {} ]_vars

\* C13: when disconnect() on the previous session throws, the same
\* startTicker still constructs the new KiteTicker, makes it the current
\* one and calls connect() on it; a callback answers 200.
ThrowingDisconnectDoesNotBlock ==
    [][ ( /\ last'.op = "startTicker"
          /\ ticker # 0
          /\ sessions[ticker].disc = "no"
          /\ sessions'[ticker].disc = "threw" )
          => /\ Len(sessions') = Len(sessions) + 1
             /\ last'.made = Len(sessions')
             /\ ticker' = last'.made
             /\ sessions'[ticker'].ws
             /\ sessions'[ticker'].st = "connecting"
             /\ last'.p # 0 => last'.status = 200 ]_vars

\* Session 1's disconnect threw during a callback's startTicker, and
\* session 2 is connected under the new credential.
StartedAfterThrow ==
    /\ last.op = "startTicker"
    /\ last.p = 1
    /\ last.made = 2
    /\ sessions[1].disc = "threw"
    /\ sessions[2].ws
    /\ sessions[2].access_token = "t2"
    /\ ticker = 2

\* C14: the calls a connect event issues are, batch after batch, a
\* subscribe and a setMode to last-traded-price on the same batch; the
\* batches are the consecutive slices of the session's resolved identifiers,
\* each of 1 to 20 identifiers, all but the last of exactly 20, and together
\* they hold every identifier once.
SubscribedInBatches ==
    last.op = "connect"
        => LET c  == last.calls
               tk == sessions[last.s].tokens
               n  == Len(c) \div 2
               batch(k) == c[2 * k - 1].chunk
           IN  /\ Len(c) = 2 * n
               /\ \A k \in 1..n :
                     /\ c[2 * k - 1].op = "subscribe"
                     /\ c[2 * k].op = "setMode"
                     /\ c[2 * k].mode = "ltp"
                     /\ c[2 * k].chunk = batch(k)
                     /\ Len(batch(k)) \in 1..chunkSize
                     /\ k < n => Len(batch(k)) = chunkSize
                     /\ \A j \in 1..Len(batch(k)) :
                           /\ (k - 1) * chunkSize + j <= Len(tk)
                           /\ batch(k)[j] = tk[(k - 1) * chunkSize + j]
               /\ IF n = 0 THEN Len(tk) = 0
                  ELSE (n - 1) * chunkSize + Len(batch(n)) = Len(tk)
               /\ \A i, j \in 1..Len(tk) : tk[i] = tk[j] => i = j

\* 41 identifiers go out as 20, 20 and 1.
ThreeBatches ==
    /\ last.op = "connect"
    /\ Len(sessions[last.s].tokens) = 2 * chunkSize + 1
    /\ Len(last.calls) = 6
    /\ Len(last.calls[1].chunk) = chunkSize
    /\ Len(last.calls[3].chunk) = chunkSize
    /\ Len(last.calls[6].chunk) = 1

\* C15: after a ticks event, the last tick of the batch whose identifier
\* maps to a symbol of the instrument index has overwritten that symbol's
\* cache entry with its price, whatever the price, 0 included.
EveryMappedTickOverwrites ==
    last.op = "ticks"
        => LET t   == last.ticks[Len(last.ticks)]
               sym == SymbolOf(instrumentBySymbol, t.instrument_token)
           IN  sym # ""
                 => (sym \in DOMAIN ltpMap /\ ltpMap[sym].price = TickPrice(t))

\* C16: while no credential is set there is no resolution, no index and no
\* session; and once a credential is available (seeded at startup, or stored
\* by a successful exchange) the startTicker it triggers ends, and when its
\* fetch returned at least one universe symbol it has made a session,
\* called connect() on it and made it the current ticker.
CredentialLeadsToSession ==
    /\ [](KITE_ACCESS_TOKEN = ""
            => /\ instrumentBySymbol = << >>
               /\ sessions = << >>
               /\ \A p \in Procs : procs[p] # "fetch")
    /\ \A p \in Procs :
          (\/ procs[p] = "fetch"
           \/ (p = 0 /\ procs[0] = "init" /\ KITE_ACCESS_TOKEN # ""))
            ~> ( /\ last.op = "startTicker"
                 /\ last.p = p
                 /\ (last.resolved /\ instrumentBySymbol # << >>)
                       => /\ last.made # 0
                          /\ ticker = last.made
                          /\ sessions[last.made].ws
                          /\ sessions[last.made].st = "connecting" )

\* A server started without credential has its first session after a
\* callback stored one.
SessionAfterCallbackCredential ==
    /\ last.op = "startTicker"
    /\ last.p = 1
    /\ last.resolved
    /\ last.made = 1
    /\ KITE_ACCESS_TOKEN = "t2"
    /\ sessions[1].access_token = "t2"
    /\ sessions[1].ws
    /\ procs[0] = "done"

\* C17: every step keeps every key of the price cache, and the keys of
\* the cache are symbols of the universe; across ticks, credential
\* rotations, re-resolutions and failed resolutions.
CacheKeysInUniverseAndKept ==
    [][ /\ DOMAIN ltpMap \subseteq DOMAIN ltpMap'
        /\ DOMAIN ltpMap' \subseteq Range(NIFTY100) ]_vars

\* A was cached by session 1; a rotation resolved the catalog without A,
\* and ticks of the new resolution arrive: A is still cached.
DelistedSymbolStaysCached ==
    /\ last.op = "ticks"
    /\ DOMAIN ltpMap = {"A", "B"}
    /\ instrumentBySymbol = << << "B", 1 >> >>
    /\ KITE_ACCESS_TOKEN = "t2"
    /\ Len(sessions) >= 2

\* C18: every tick that a ticks event writes to the cache is filed under the
\* symbol its identifier has in the index of the delivering session's own
\* resolution.
TickFiledUnderSubscribedSymbol ==
    last.op = "ticks"
        => \A i \in 1..Len(last.ticks) :
              LET t   == last.ticks[i]
                  sym == SymbolOf(instrumentBySymbol, t.instrument_token)
              IN  (sym # "" /\ TickPrice(t) # 0)
                    => sym = SymbolOf(sessions[last.s].index, t.instrument_token)

\* C19: the subscribe and setMode calls of a connect event go to the
\* session whose connect event fired, and carry the identifiers resolved for
\* that session.
ConnectSubscribesOwnSession ==
    last.op = "connect"
        => /\ last.target = last.s
           /\ \A i \in 1..Len(last.calls) :
                 Range(last.calls[i].chunk) \subseteq Range(sessions[last.target].tokens)

====
